---- MODULE Spec2Model ----
(***************************************************************************)
(* Model of the deidentification worker (src/worker.py): table discovery,  *)
(* shadow table creation, bulk sync, the polling loop with its in-memory   *)
(* watermark, the stop flag, and the database the worker talks to.         *)
(* The manual path's generate_anon_id (src/app/deidentify.py) is modelled  *)
(* next to the worker's, on identity strings given as character sequences. *)
(*                                                                         *)
(* A table name is a sequence of tokens (members_raw is <<"members",       *)
(* "raw">>), so that prefix and keyword tests and the "_deidentified"      *)
(* suffix are computed on the name.  A row is a function from column names *)
(* to values.  Python None / SQL NULL is the value None.                   *)
(***************************************************************************)
EXTENDS Integers, Sequences, FiniteSets, TLC

\* ---------------------------------------------------------------- bounds
\* primary keys of inserted source rows are drawn from 1..MaxKey
MaxKey == 2
\* at most MaxRows source rows exist over all tables
MaxRows == 2
\* identity strings given to generate_anon_id have at most MaxLen characters
MaxLen == 4
\* a source table given to create_deidentified_table alone has the column id
\* and at most MaxCols further columns
MaxCols == 3
\* rows of members_raw the web application starts with
MaxMembers == 2
\* rows of audit_logs after which the web application takes no request
MaxAudit == 3

\* ------------------------------------------------------------ input sets
None == "<None>"
\* identity values a source row may carry
Emails == {None, "", "a@x.com", "b@y.com"}
SECRET == "k"
NoTable == <<>>

\* the tables the database starts with: members_raw, member_activity,
\* audit_logs and a system table _users
MembersRaw == <<"members", "raw">>
MemberActivity == <<"member", "activity">>
AuditLogs == <<"audit", "logs">>
SysUsers == <<"_", "users">>

\* f"{source_table}_deidentified"
DeidentName(name) == Append(name, "deidentified")

\* the table names that can come to exist, in the order MySQL lists them
NameOrder ==
    << SysUsers, AuditLogs,
       MemberActivity, DeidentName(MemberActivity),
       DeidentName(DeidentName(MemberActivity)),
       MembersRaw, DeidentName(MembersRaw),
       DeidentName(DeidentName(MembersRaw)) >>

\* the column lists of the tables the database starts with
MembersRawCols == <<"id", "email", "full_name">>
MemberActivityCols == <<"id", "anon_id", "activity_type">>
AuditLogsCols == <<"id", "action">>
SysUsersCols == <<"id", "email">>

VARIABLES
    tab,            \* database: name -> [cols, pk, unique, rows]
    pc,             \* position of run(): discover, provision, bulk, loop, poll, sleep, stopped, crashed
    idx,            \* index into user_tables of the for loop in progress
    running,        \* self.running
    processed_ids,  \* self.processed_ids: table -> last synced id
    user_tables,    \* run()'s user_tables
    deident_tables, \* run()'s deident_tables
    lastOp,         \* history: the latest step of run() or of the application on
                    \* the database, and its outcome
    lastPoll,       \* history: per table, the keys whose write failed in its latest
                    \* poll of this run (no entry when none failed)
    failedCreate,   \* history: tables whose creation returned None in this run
    call,           \* the latest application of generate_anon_id to an identity
                    \* string by the worker and by the manager, and what each returned
    stage           \* history: per table, what happened to it since its last bulk sync:
                    \* "bulked" (nothing), "one" (one fresh row with a larger key was
                    \* inserted); no entry otherwise

vars == <<tab, pc, idx, running, processed_ids, user_tables,
          deident_tables, lastOp, lastPoll, failedCreate, call, stage>>

\* the state of the worker process and of the database
run_vars == <<tab, pc, idx, running, processed_ids, user_tables,
              deident_tables, lastOp, lastPoll, failedCreate, stage>>

\* ------------------------------------------------------------- helpers
Range(s) == { s[i] : i \in 1..Len(s) }

Get(d, k, default) == IF k \in DOMAIN d THEN d[k] ELSE default

Put(d, k, v) == [x \in DOMAIN d \cup {k} |-> IF x = k THEN v ELSE d[x]]

Drop(d, k) == [x \in DOMAIN d \ {k} |-> d[x]]

Max(a, b) == IF a >= b THEN a ELSE b

SetMax(S) == IF S = {} THEN 0 ELSE CHOOSE m \in S : \A x \in S : x <= m

NoDuplicates(s) == \A i, j \in 1..Len(s) : s[i] = s[j] => i = j

RECURSIVE Remove(_, _)
\* list.remove(x): drops the first occurrence
Remove(s, x) ==
    IF s = <<>> THEN <<>>
    ELSE IF Head(s) = x THEN Tail(s)
    ELSE <<Head(s)>> \o Remove(Tail(s), x)

\* ----------------------------------------------------- name heuristics
\* table_name.startswith('_') or table_name.startswith('mysql')
IsSystemName(name) == name # <<>> /\ name[1] \in {"_", "mysql"}

\* the tokens that contain one of 'member', 'user', 'account', 'profile', 'raw'
KeywordTokens ==
    {"member", "members", "user", "users", "account", "accounts",
     "profile", "profiles", "raw"}

is_user_table(name) ==
    IF IsSystemName(name) THEN FALSE
    ELSE \E i \in 1..Len(name) : name[i] \in KeywordTokens

\* 'email' in col.lower()
IsEmailCol(c) == c \in {"email", "Email", "work_email", "email_address"}

\* -------------------------------------------------------- schema catalog
\* inspector.get_table_names(): the tables of the database, in name order
get_tables == SelectSeq(NameOrder, LAMBDA n : n \in DOMAIN tab)

get_email_column(name) ==
    LET cols == tab[name].cols
        hits == { i \in 1..Len(cols) : IsEmailCol(cols[i]) }
    IN  IF hits = {} THEN None
        ELSE cols[CHOOSE i \in hits : \A j \in hits : i <= j]

get_id_column(name) ==
    LET pk == tab[name].pk
    IN  IF pk # <<>> THEN pk[1] ELSE "id"

\* ------------------------------------------------------------ transform
\* hmac.new(secret, email, sha256).hexdigest(): injective in (secret, email)
Hmac(secret, msg) == <<"hmac", secret, msg>>

\* DeidentificationWorker.generate_anon_id
generate_anon_id(email) == Hmac(SECRET, email)

\* An identity string as the sequence of its characters, over an alphabet
\* with a lower-case letter, its upper-case form and a whitespace character.
Alphabet == {"a", "A", " "}

RECURSIVE StringsUpTo(_)
StringsUpTo(n) ==
    IF n = 0 THEN {<<>>}
    ELSE LET shorter == StringsUpTo(n - 1)
         IN  shorter \cup { Append(s, c) : s \in shorter, c \in Alphabet }

Identities == StringsUpTo(MaxLen)

\* str.lower()
lower(s) == [i \in 1..Len(s) |-> IF s[i] = "A" THEN "a" ELSE s[i]]

RECURSIVE lstrip(_)
lstrip(s) == IF s # <<>> /\ Head(s) = " " THEN lstrip(Tail(s)) ELSE s

RECURSIVE rstrip(_)
rstrip(s) ==
    IF s # <<>> /\ s[Len(s)] = " " THEN rstrip(SubSeq(s, 1, Len(s) - 1)) ELSE s

\* str.strip()
strip(s) == rstrip(lstrip(s))

\* DeidentificationManager._hmac_hash
_hmac_hash(secret, value) == Hmac(secret, value)

\* DeidentificationManager.generate_anon_id; "ValueError" stands for the raise
manager_generate_anon_id(email) ==
    IF email = <<>> THEN "ValueError"
    ELSE _hmac_hash(SECRET, strip(lower(email)))

\* Python truthiness of the identity value: `not email`
Falsy(email) == email = None \/ email = ""

\* ------------------------------------------------------------- database
SourceUnique == {"id"}

PksOf(name) == { tab[name].rows[i]["id"] : i \in 1..Len(tab[name].rows) }

\* the placeholder text the code builds for a column: f":{col}" in
\* monitor_new_records, f":%{col}" in sync_existing_records.  text() binds
\* ":name" only when a word character follows the colon.
PollPlaceholderPrefix == <<":">>
BulkPlaceholderPrefix == <<":", "%">>
IsBindParam(prefix) == prefix = <<":">>

\* default of a column the INSERT does not name
ColumnDefault(c) == IF c = "deidentified_at" THEN "CURRENT_TIMESTAMP" ELSE None

\* a plain INSERT: a duplicate of a unique value is an error
ExecInsertIgnore_Plain(name, rows, cols, vals, prefix, transient) ==
    IF \/ ~IsBindParam(prefix)
       \/ name \notin DOMAIN tab
       \/ transient
       \/ ~(Range(cols) \subseteq Range(tab[name].cols)) \/ ~NoDuplicates(cols)
       \/ \E c \in tab[name].unique \cap Range(cols) :
             \E i \in 1..Len(rows) : rows[i][c] = vals[c]
    THEN [raised |-> TRUE, rows |-> rows]
    ELSE [raised |-> FALSE,
          rows |-> Append(rows,
                     [c \in Range(tab[name].cols) |->
                        IF c \in Range(cols) THEN vals[c] ELSE ColumnDefault(c)])]

\* INSERT IGNORE INTO name (cols) VALUES (placeholders) with the bound values,
\* on the rows `rows` of the open transaction.  raised: the call throws.
ExecInsertIgnore(name, rows, cols, vals, prefix, transient) ==
    IF \/ ~IsBindParam(prefix)
       \/ name \notin DOMAIN tab
       \/ transient
    THEN [raised |-> TRUE, rows |-> rows]
    ELSE IF ~(Range(cols) \subseteq Range(tab[name].cols)) \/ ~NoDuplicates(cols)
    THEN [raised |-> TRUE, rows |-> rows]
    ELSE IF \E c \in tab[name].unique \cap Range(cols) :
                \E i \in 1..Len(rows) : rows[i][c] = vals[c]
    THEN [raised |-> FALSE, rows |-> rows]
    ELSE [raised |-> FALSE,
          rows |-> Append(rows,
                     [c \in Range(tab[name].cols) |->
                        IF c \in Range(cols) THEN vals[c] ELSE ColumnDefault(c)])]

RECURSIVE SortById(_, _)
\* ORDER BY id_col, ascending
SortById(S, id_col) ==
    IF S = {} THEN <<>>
    ELSE LET r == CHOOSE x \in S : \A y \in S : x[id_col] <= y[id_col]
         IN  <<r>> \o SortById(S \ {r}, id_col)

\* a select that resumes after the largest source_id of the shadow table
SelectNew_AfterShadow(source, id_col, last_id) ==
    LET sh == IF DeidentName(source) \in DOMAIN tab
              THEN tab[DeidentName(source)].rows ELSE <<>>
        seen == { sh[i]["source_id"] : i \in 1..Len(sh) }
    IN  SortById({ r \in Range(tab[source].rows) :
                     r[id_col] > Max(last_id, SetMax(seen)) }, id_col)

\* SELECT * FROM source WHERE id_col > last_id ORDER BY id_col
SelectNew(source, id_col, last_id) ==
    SortById({ r \in Range(tab[source].rows) : r[id_col] > last_id }, id_col)

\* --------------------------------------------- create_deidentified_table
\* the column names of col_defs
ShadowCols(cols) ==
    [i \in 1..Len(cols) |-> IF IsEmailCol(cols[i]) THEN "anon_id" ELSE cols[i]]
        \o <<"source_id", "deidentified_at">>

\* a creation without the existence check: CREATE TABLE of a table that
\* exists fails
create_deidentified_table_Unchecked(source, err) ==
    LET deident == DeidentName(source)
        col_defs == ShadowCols(tab[source].cols)
        same == [raised |-> FALSE, ret |-> NoTable, tab |-> tab,
                 out |-> "create_failed", clean |-> TRUE]
    IN  IF err = "connect"
        THEN [same EXCEPT !.raised = TRUE, !.out = "raised", !.clean = FALSE]
        ELSE IF err = "ddl" THEN [same EXCEPT !.clean = FALSE]
        ELSE IF deident \in DOMAIN tab \/ ~NoDuplicates(col_defs) THEN same
        ELSE [raised |-> FALSE, ret |-> deident, out |-> "created", clean |-> TRUE,
              tab |-> Put(tab, deident,
                          [cols |-> col_defs, pk |-> <<>>,
                           unique |-> IF get_email_column(source) # None
                                      THEN {"anon_id"} ELSE {},
                           rows |-> <<>>])]

\* a creation whose failed CREATE TABLE leaves the function as an exception
create_deidentified_table_Raises(source, err) ==
    LET deident == DeidentName(source)
        col_defs == ShadowCols(tab[source].cols)
        same == [raised |-> FALSE, ret |-> NoTable, tab |-> tab,
                 out |-> "create_failed", clean |-> TRUE]
    IN  IF err = "connect"
        THEN [same EXCEPT !.raised = TRUE, !.out = "raised", !.clean = FALSE]
        ELSE IF deident \in Range(get_tables)
             THEN [same EXCEPT !.ret = deident, !.out = "exists"]
        ELSE IF err = "ddl" THEN [same EXCEPT !.raised = TRUE, !.clean = FALSE]
        ELSE IF ~NoDuplicates(col_defs) THEN [same EXCEPT !.raised = TRUE]
        ELSE [raised |-> FALSE, ret |-> deident, out |-> "created", clean |-> TRUE,
              tab |-> Put(tab, deident,
                          [cols |-> col_defs, pk |-> <<>>,
                           unique |-> IF get_email_column(source) # None
                                      THEN {"anon_id"} ELSE {},
                           rows |-> <<>>])]

\* err: "none", "connect" (engine.connect or the inspector raises) or "ddl"
\* (the database rejects the CREATE TABLE statement; it also rejects one
\* that names a column twice).  Result: the returned name (NoTable stands
\* for the None return), whether the call raised, out (the path taken:
\* "raised", "exists", "create_failed", "created"), clean (no fault of the
\* database took effect), and the database afterwards.
create_deidentified_table(source, err) ==
    LET deident == DeidentName(source)
        col_defs == ShadowCols(tab[source].cols)
        same == [raised |-> FALSE, ret |-> NoTable, tab |-> tab,
                 out |-> "create_failed", clean |-> TRUE]
    IN  IF err = "connect"
        THEN [same EXCEPT !.raised = TRUE, !.out = "raised", !.clean = FALSE]
        ELSE IF deident \in Range(get_tables)
             THEN [same EXCEPT !.ret = deident, !.out = "exists"]
        ELSE IF err = "ddl" THEN [same EXCEPT !.clean = FALSE]
        ELSE IF ~NoDuplicates(col_defs) THEN same
        ELSE [raised |-> FALSE, ret |-> deident, out |-> "created", clean |-> TRUE,
              tab |-> Put(tab, deident,
                          [cols |-> col_defs, pk |-> <<>>,
                           unique |-> IF get_email_column(source) # None
                                      THEN {"anon_id"} ELSE {},
                           rows |-> <<>>])]

\* --------------------------------------------------- shared row handling
SkipRow_NullOnly(email) == email = None

\* `if not email: continue`
SkipRow(email) == Falsy(email)

\* cols.remove(email_col); cols.append('anon_id'); cols.append('source_id')
InsertCols(source, email_col) ==
    Remove(tab[source].cols, email_col) \o <<"anon_id", "source_id">>

\* bound values that do not carry the key of the source row
InsertVals_NoSourceId(source, row, email_col, id_col) ==
    [c \in (Range(tab[source].cols) \ {email_col}) \cup {"anon_id", "source_id"} |->
        IF c = "anon_id" THEN generate_anon_id(row[email_col])
        ELSE IF c = "source_id" THEN 0
        ELSE row[c]]

\* bound values that carry the identity value itself as the anon_id
InsertVals_RawIdentity(source, row, email_col, id_col) ==
    [c \in (Range(tab[source].cols) \ {email_col}) \cup {"anon_id", "source_id"} |->
        IF c = "anon_id" THEN row[email_col]
        ELSE IF c = "source_id" THEN row[id_col]
        ELSE row[c]]

\* {**{k: v for k, v in row_dict.items() if k != email_col},
\*  'anon_id': anon_id, 'source_id': source_id}
InsertVals(source, row, email_col, id_col) ==
    [c \in (Range(tab[source].cols) \ {email_col}) \cup {"anon_id", "source_id"} |->
        IF c = "anon_id" THEN generate_anon_id(row[email_col])
        ELSE IF c = "source_id" THEN row[id_col]
        ELSE row[c]]

\* --------------------------------------------------- monitor_new_records
NewWatermark_OffByOne(old, source_id) == Max(old, source_id + 1)

\* max(self.processed_ids.get(source_table, 0), source_id)
NewWatermark(old, source_id) == Max(old, source_id)

RECURSIVE MonitorLoop(_, _, _, _, _, _)
\* `for row in new_rows`: st carries the open transaction's shadow rows, the
\* processed_ids dict and what happened to each row; fail is the set of keys
\* whose INSERT the database rejects with a write error.
MonitorLoop(new_rows, source, email_col, id_col, fail, st) ==
    IF new_rows = <<>> THEN st
    ELSE
      LET row == Head(new_rows)
          email == row[email_col]
          source_id == row[id_col]
      IN  IF SkipRow(email)
          THEN MonitorLoop(Tail(new_rows), source, email_col, id_col, fail,
                           [st EXCEPT !.skipped = @ \cup {source_id}])
          ELSE
            LET ins == ExecInsertIgnore(DeidentName(source), st.rows,
                                        InsertCols(source, email_col),
                                        InsertVals(source, row, email_col, id_col),
                                        PollPlaceholderPrefix, source_id \in fail)
            IN  IF ins.raised
                THEN MonitorLoop(Tail(new_rows), source, email_col, id_col, fail,
                                 [st EXCEPT !.attempted = @ \cup {source_id},
                                            !.failed = @ \cup {source_id}])
                ELSE MonitorLoop(Tail(new_rows), source, email_col, id_col, fail,
                                 [st EXCEPT !.attempted = @ \cup {source_id},
                                            !.rows = ins.rows,
                                            !.pids = Put(@, source,
                                                NewWatermark(Get(@, source, 0), source_id))])

\* One call of monitor_new_records.  err: which database call fails, if any:
\* "meta" (get_email_column / get_id_column), "connect" (engine.connect),
\* "select", "commit".  Result: raised (the exception leaves the function),
\* out (which path was taken: "select_failed" and "commit_failed" are the
\* errors the function catches), clean (no fault of the database took
\* effect), the shadow rows and processed_ids afterwards.
monitor_new_records(source, err, fail) ==
    LET deident == DeidentName(source)
        email_col == get_email_column(source)
        id_col == get_id_column(source)
        last_id == Get(processed_ids, source, 0)
        old_rows == IF deident \in DOMAIN tab THEN tab[deident].rows ELSE <<>>
        nothing == [raised |-> FALSE, out |-> "return", clean |-> TRUE,
                    rows |-> old_rows, pids |-> processed_ids, selected |-> {},
                    attempted |-> {}, failed |-> {}, skipped |-> {}]
        raise == [nothing EXCEPT !.raised = TRUE, !.out = "raised", !.clean = FALSE]
    IN  IF err = "meta" THEN raise
        ELSE IF email_col = None THEN [nothing EXCEPT !.out = "no_email"]
        ELSE IF err = "connect" THEN raise
        ELSE IF err = "select"
             THEN [nothing EXCEPT !.out = "select_failed", !.clean = FALSE]
        ELSE
          LET new_rows == SelectNew(source, id_col, last_id)
              st == MonitorLoop(new_rows, source, email_col, id_col, fail,
                                [rows |-> old_rows, pids |-> processed_ids,
                                 attempted |-> {}, failed |-> {}, skipped |-> {}])
              res == [raised |-> FALSE, out |-> "committed",
                      clean |-> st.attempted \cap fail = {},
                      rows |-> st.rows, pids |-> st.pids,
                      selected |-> { new_rows[i][id_col] : i \in 1..Len(new_rows) },
                      attempted |-> st.attempted, failed |-> st.failed,
                      skipped |-> st.skipped]
          IN  IF new_rows = <<>> THEN [nothing EXCEPT !.out = "idle"]
              ELSE IF err = "commit"
                   THEN [res EXCEPT !.out = "commit_failed", !.clean = FALSE,
                                    !.rows = old_rows]
                   ELSE res

\* --------------------------------------------------- sync_existing_records
RECURSIVE SyncLoop(_, _, _, _, _, _)
\* `for row in rows` of sync_existing_records
SyncLoop(rows, source, email_col, id_col, fail, st) ==
    IF rows = <<>> THEN st
    ELSE
      LET row == Head(rows)
          email == row[email_col]
          source_id == row[id_col]
      IN  IF SkipRow(email)
          THEN SyncLoop(Tail(rows), source, email_col, id_col, fail,
                        [st EXCEPT !.skipped = @ \cup {source_id}])
          ELSE
            LET ins == ExecInsertIgnore(DeidentName(source), st.rows,
                                        InsertCols(source, email_col),
                                        InsertVals(source, row, email_col, id_col),
                                        BulkPlaceholderPrefix, source_id \in fail)
            IN  SyncLoop(Tail(rows), source, email_col, id_col, fail,
                         [st EXCEPT !.attempted = @ \cup {source_id},
                                    !.failed = IF ins.raised THEN @ \cup {source_id} ELSE @,
                                    !.rows = ins.rows])

RECURSIVE NaiveCopy(_, _, _, _, _)
NaiveCopy(rows, source, email_col, id_col, acc) ==
    IF rows = <<>> THEN acc
    ELSE NaiveCopy(Tail(rows), source, email_col, id_col,
           IF SkipRow(Head(rows)[email_col]) THEN acc
           ELSE Append(acc,
                  [c \in Range(tab[DeidentName(source)].cols) |->
                     IF c \in Range(InsertCols(source, email_col))
                     THEN InsertVals(source, Head(rows), email_col, id_col)[c]
                     ELSE ColumnDefault(c)]))

\* a bulk copy with no guard: no count check, plain appends
sync_existing_records_Naive(source, err, fail) ==
    LET deident == DeidentName(source)
        email_col == get_email_column(source)
        id_col == get_id_column(source)
        old_rows == IF deident \in DOMAIN tab THEN tab[deident].rows ELSE <<>>
        nothing == [raised |-> FALSE, out |-> "return", clean |-> TRUE,
                    rows |-> old_rows, selected |-> {}, attempted |-> {},
                    failed |-> {}, skipped |-> {}]
    IN  IF err = "meta"
        THEN [nothing EXCEPT !.raised = TRUE, !.out = "raised", !.clean = FALSE]
        ELSE IF email_col = None THEN [nothing EXCEPT !.out = "no_email"]
        ELSE IF err # "none"
        THEN [nothing EXCEPT !.raised = TRUE, !.out = "raised", !.clean = FALSE]
        ELSE IF deident \notin DOMAIN tab
        THEN [nothing EXCEPT !.raised = TRUE, !.out = "raised"]
        ELSE [nothing EXCEPT !.out = "synced",
                !.rows = NaiveCopy(tab[source].rows, source, email_col, id_col, old_rows),
                !.selected = PksOf(source)]

\* a bulk sync that copies whatever the shadow table already holds
sync_existing_records_NoCount(source, err, fail) ==
    LET deident == DeidentName(source)
        email_col == get_email_column(source)
        id_col == get_id_column(source)
        old_rows == IF deident \in DOMAIN tab THEN tab[deident].rows ELSE <<>>
        nothing == [raised |-> FALSE, out |-> "return", clean |-> TRUE,
                    rows |-> old_rows, selected |-> {}, attempted |-> {},
                    failed |-> {}, skipped |-> {}]
        raise == [nothing EXCEPT !.raised = TRUE, !.out = "raised", !.clean = FALSE]
    IN  IF err = "meta" THEN raise
        ELSE IF email_col = None THEN [nothing EXCEPT !.out = "no_email"]
        ELSE IF err = "connect" THEN raise
        ELSE IF deident \notin DOMAIN tab THEN [raise EXCEPT !.clean = TRUE]
        ELSE IF err \in {"count", "select"} THEN raise
        ELSE
          LET rows == tab[source].rows
              st == SyncLoop(rows, source, email_col, id_col, fail,
                             [rows |-> old_rows, attempted |-> {}, failed |-> {},
                              skipped |-> {}])
          IN  IF err = "commit" THEN [raise EXCEPT !.selected = PksOf(source)]
              ELSE [raised |-> FALSE, out |-> "synced",
                    clean |-> st.attempted \cap fail = {}, rows |-> st.rows,
                    selected |-> PksOf(source), attempted |-> st.attempted,
                    failed |-> st.failed, skipped |-> st.skipped]

\* One call of sync_existing_records.  err: which database call fails, if
\* any: "meta", "connect", "count", "select", "commit"; every one of them is
\* outside a try block and leaves the function.  The COUNT(*) also raises
\* when the shadow table does not exist (no fault of the database: clean).
sync_existing_records(source, err, fail) ==
    LET deident == DeidentName(source)
        email_col == get_email_column(source)
        id_col == get_id_column(source)
        old_rows == IF deident \in DOMAIN tab THEN tab[deident].rows ELSE <<>>
        nothing == [raised |-> FALSE, out |-> "return", clean |-> TRUE,
                    rows |-> old_rows, selected |-> {}, attempted |-> {},
                    failed |-> {}, skipped |-> {}]
        raise == [nothing EXCEPT !.raised = TRUE, !.out = "raised", !.clean = FALSE]
    IN  IF err = "meta" THEN raise
        ELSE IF email_col = None THEN [nothing EXCEPT !.out = "no_email"]
        ELSE IF err = "connect" THEN raise
        ELSE IF deident \notin DOMAIN tab THEN [raise EXCEPT !.clean = TRUE]
        ELSE IF err = "count" THEN raise
        ELSE IF Len(old_rows) > 0 THEN [nothing EXCEPT !.out = "already"]
        ELSE IF err = "select" THEN raise
        ELSE
          LET rows == tab[source].rows
              st == SyncLoop(rows, source, email_col, id_col, fail,
                             [rows |-> old_rows, attempted |-> {}, failed |-> {},
                              skipped |-> {}])
          IN  IF err = "commit" THEN [raise EXCEPT !.selected = PksOf(source)]
              ELSE [raised |-> FALSE, out |-> "synced",
                    clean |-> st.attempted \cap fail = {}, rows |-> st.rows,
                    selected |-> PksOf(source), attempted |-> st.attempted,
                    failed |-> st.failed, skipped |-> st.skipped]

\* ------------------------------------------------------------------ run
EmptyMap == [x \in {} |-> 0]

\* the watermark of a table: self.processed_ids.get(table, 0)
Watermark(t) == Get(processed_ids, t, 0)

\* the positions of the polling loop
PollingPhase == {"loop", "poll", "sleep"}

\* a pass that is cut short once the stop flag is set
AfterStep_StopsEarly(phase, i, n) ==
    IF phase = "poll" /\ ~running THEN [pc |-> "loop", idx |-> 0]
    ELSE IF i < n THEN [pc |-> phase, idx |-> i + 1]
    ELSE IF phase = "provision" THEN [pc |-> "bulk", idx |-> 1]
    ELSE IF phase = "bulk" THEN [pc |-> "loop", idx |-> 0]
    ELSE [pc |-> "sleep", idx |-> 0]

\* each table is created and bulk-synced before the next table is created
AfterStep_Pipelined(phase, i, n) ==
    IF phase = "provision" THEN [pc |-> "bulk", idx |-> i]
    ELSE IF phase = "bulk"
         THEN IF i < n THEN [pc |-> "provision", idx |-> i + 1]
              ELSE [pc |-> "loop", idx |-> 0]
    ELSE IF i < n THEN [pc |-> phase, idx |-> i + 1]
    ELSE [pc |-> "sleep", idx |-> 0]

\* a loop that never tests the flag
LoopTest_Forever == TRUE

\* a loop that runs its first pass before it tests the flag
LoopTest_FirstPassFree == running \/ lastOp.op = "bulk"

\* the test of `while self.running:`
LoopTest == running

\* the position after the loop body for user_tables[i] of a phase's for loop
AfterStep(phase, i, n) ==
    IF i < n THEN [pc |-> phase, idx |-> i + 1]
    ELSE IF phase = "provision" THEN [pc |-> "bulk", idx |-> 1]
    ELSE IF phase = "bulk" THEN [pc |-> "loop", idx |-> 0]
    ELSE [pc |-> "sleep", idx |-> 0]

Op(op, table, out) ==
    [op |-> op, table |-> table, out |-> out, clean |-> out # "raised",
     again |-> FALSE, rescan |-> FALSE,
     selected |-> {}, attempted |-> {}, failed |-> {}, skipped |-> {}]

\* again: a bulk sync of a table nothing happened to since its last bulk sync
\* rescan: a poll that starts with no watermark for a table whose shadow
\* table already holds rows (rows an earlier worker process wrote)
OpOf(op, table, res) ==
    [op |-> op, table |-> table, out |-> res.out, clean |-> res.clean,
     again |-> op = "bulk" /\ Get(stage, table, "") = "bulked",
     rescan |-> /\ op = "poll"
                /\ table \notin DOMAIN processed_ids
                /\ DeidentName(table) \in DOMAIN tab
                /\ tab[DeidentName(table)].rows # <<>>,
     selected |-> res.selected, attempted |-> res.attempted,
     failed |-> res.failed, skipped |-> res.skipped]

SetRows(t, name, rows) ==
    IF name \in DOMAIN t THEN [t EXCEPT ![name].rows = rows] ELSE t

SourceRow(name, k, e) ==
    [c \in Range(tab[name].cols) |->
        IF c = "id" THEN k ELSE IF c = "email" THEN e ELSE "v"]

\* the tables the application inserts into: those with an identity column
\* (the worker reads no row of any other table)
InsertTargets ==
    { n \in {MembersRaw, MemberActivity} : get_email_column(n) # None }

RECURSIVE SumRows(_)
SumRows(S) ==
    IF S = {} THEN 0
    ELSE LET n == CHOOSE x \in S : TRUE
         IN  Len(tab[n].rows) + SumRows(S \ {n})

TotalRows == SumRows(InsertTargets)

\* the database calls of one sync call that can fail: a table without an
\* identity column is left after the metadata lookup, before any other call
ErrChoices(table, errs) ==
    IF get_email_column(table) = None THEN errs \cap {"none", "meta"} ELSE errs

\* the sets of keys whose INSERT the database may reject in one call: any set
\* of the keys whose INSERT the call can issue (none when err ends the call
\* before its loop)
FailChoices(table, err, last_id) ==
    IF err \in {"none", "commit"} /\ get_email_column(table) # None
    THEN SUBSET { r[get_id_column(table)] :
                    r \in { q \in Range(tab[table].rows) :
                              /\ q[get_id_column(table)] > last_id
                              /\ ~SkipRow(q[get_email_column(table)]) } }
    ELSE {{}}

NoCall == [fn |-> "none", arg |-> <<>>, worker |-> None, manager |-> None]

TableDef(cols) == [cols |-> cols, pk |-> <<"id">>, unique |-> SourceUnique, rows |-> <<>>]

Init ==
    /\ tab = [n \in {MembersRaw, MemberActivity, AuditLogs, SysUsers} |->
                IF n = MembersRaw THEN TableDef(MembersRawCols)
                ELSE IF n = MemberActivity THEN TableDef(MemberActivityCols)
                ELSE IF n = AuditLogs THEN TableDef(AuditLogsCols)
                ELSE TableDef(SysUsersCols)]
    /\ pc = "discover"
    /\ idx = 0
    /\ running = TRUE
    /\ processed_ids = EmptyMap
    /\ user_tables = <<>>
    /\ deident_tables = EmptyMap
    /\ lastOp = Op("init", NoTable, "return")
    /\ lastPoll = EmptyMap
    /\ failedCreate = {}
    /\ call = NoCall
    /\ stage = EmptyMap

\* the exit status of the worker process: exit(1) after an exception left
\* run(), 0 after run() returned (None while the process runs)
ExitStatus ==
    IF pc = "crashed" THEN 1 ELSE IF pc = "stopped" THEN 0 ELSE None

\* a discovery that treats a failed enumeration as an empty database
Discover_Swallows ==
    /\ pc = "discover"
    /\ \E err \in {"none", "connect"} :
         LET ut == IF err = "connect" THEN <<>>
                   ELSE SelectSeq(get_tables, is_user_table)
         IN  /\ user_tables' = ut
             /\ pc' = IF ut = <<>> THEN "loop" ELSE "provision"
             /\ idx' = IF ut = <<>> THEN 0 ELSE 1
             /\ lastOp' = Op("discover", NoTable,
                             IF err = "connect" THEN "raised" ELSE "return")
    /\ UNCHANGED <<tab, running, processed_ids, deident_tables,
                   lastPoll, failedCreate, stage>>
    /\ UNCHANGED call

\* run() step 1: tables = self.get_tables(); user_tables = [...]
Discover ==
    /\ pc = "discover"
    /\ \E err \in {"none", "connect"} :
         IF err = "connect"
         THEN /\ pc' = "crashed"
              /\ lastOp' = Op("discover", NoTable, "raised")
              /\ UNCHANGED <<idx, user_tables>>
         ELSE LET ut == SelectSeq(get_tables, is_user_table)
              IN  /\ user_tables' = ut
                  /\ pc' = IF ut = <<>> THEN "loop" ELSE "provision"
                  /\ idx' = IF ut = <<>> THEN 0 ELSE 1
                  /\ lastOp' = Op("discover", NoTable, "return")
    /\ UNCHANGED <<tab, running, processed_ids, deident_tables,
                   lastPoll, failedCreate, stage>>
    /\ UNCHANGED call

\* run() step 2, one iteration: deident = self.create_deidentified_table(table)
Provision ==
    /\ pc = "provision"
    /\ LET table == user_tables[idx] IN
       \E err \in {"none", "connect", "ddl"} :
       \E res \in {create_deidentified_table(table, err)} :
         LET next == AfterStep("provision", idx, Len(user_tables))
         IN  /\ tab' = res.tab
             /\ IF res.raised
                THEN /\ pc' = "crashed"
                     /\ UNCHANGED <<idx, deident_tables, failedCreate>>
                ELSE /\ pc' = next.pc
                     /\ idx' = next.idx
                     /\ deident_tables' =
                          IF res.ret # NoTable THEN Put(deident_tables, table, res.ret)
                          ELSE deident_tables
                     /\ failedCreate' =
                          IF res.ret = NoTable THEN failedCreate \cup {table}
                          ELSE failedCreate
             /\ lastOp' = [Op("create", table, res.out) EXCEPT !.clean = res.clean]
    /\ UNCHANGED <<running, processed_ids, user_tables, lastPoll, stage>>
    /\ UNCHANGED call

\* run() step 3, one iteration: self.sync_existing_records(table)
BulkSync ==
    /\ pc = "bulk"
    /\ LET table == user_tables[idx] IN
       \E err \in ErrChoices(table, {"none", "meta", "connect", "count",
                                     "select", "commit"}) :
       \E fail \in FailChoices(table, err, 0) :
       \E res \in {sync_existing_records(table, err, fail)} :
         LET next == AfterStep("bulk", idx, Len(user_tables))
         IN  /\ tab' = SetRows(tab, DeidentName(table), res.rows)
             /\ lastOp' = OpOf("bulk", table, res)
             /\ stage' = IF res.out \in {"already", "synced"}
                         THEN Put(stage, table, "bulked")
                         ELSE Drop(stage, table)
             /\ IF res.raised
                THEN pc' = "crashed" /\ UNCHANGED idx
                ELSE pc' = next.pc /\ idx' = next.idx
    /\ UNCHANGED <<running, processed_ids, user_tables, deident_tables,
                   lastPoll, failedCreate>>
    /\ UNCHANGED call

\* `while self.running:`
LoopCheck ==
    /\ pc = "loop"
    /\ IF LoopTest
       THEN IF user_tables = <<>>
            THEN pc' = "sleep" /\ idx' = 0
            ELSE pc' = "poll" /\ idx' = 1
       ELSE pc' = "stopped" /\ idx' = 0
    /\ lastOp' = Op("loop", NoTable, IF LoopTest THEN "enter" ELSE "exit")
    /\ UNCHANGED <<tab, running, processed_ids, user_tables,
                   deident_tables, lastPoll, failedCreate, stage>>
    /\ UNCHANGED call

\* run() step 4, one iteration of the for loop: self.monitor_new_records(table)
Poll ==
    /\ pc = "poll"
    /\ LET table == user_tables[idx] IN
       \E err \in ErrChoices(table, {"none", "meta", "connect", "select",
                                     "commit"}) :
       \E fail \in FailChoices(table, err, Watermark(table)) :
       \E res \in {monitor_new_records(table, err, fail)} :
         LET next == AfterStep("poll", idx, Len(user_tables))
         IN  /\ tab' = SetRows(tab, DeidentName(table), res.rows)
             /\ processed_ids' = res.pids
             /\ lastOp' = OpOf("poll", table, res)
             /\ lastPoll' =
                  IF res.out \in {"idle", "committed", "commit_failed"}
                  THEN IF res.failed = {} THEN Drop(lastPoll, table)
                       ELSE Put(lastPoll, table, res.failed)
                  ELSE lastPoll
             /\ stage' = Drop(stage, table)
             /\ IF res.raised
                THEN pc' = "crashed" /\ UNCHANGED idx
                ELSE pc' = next.pc /\ idx' = next.idx
    /\ UNCHANGED <<running, user_tables, deident_tables, failedCreate>>
    /\ UNCHANGED call

\* time.sleep(interval)
Sleep ==
    /\ pc = "sleep"
    /\ pc' = "loop"
    /\ lastOp' = Op("sleep", NoTable, "return")
    /\ UNCHANGED <<tab, idx, running, processed_ids, user_tables,
                   deident_tables, lastPoll, failedCreate, stage>>
    /\ UNCHANGED call

\* SIGTERM / SIGINT: signal_handler calls worker.stop().  The handlers are
\* installed before run() is called, so the signal can arrive in any phase
\* of a running process.
Signal ==
    /\ pc \notin {"stopped", "crashed"}
    /\ running
    /\ running' = FALSE
    /\ lastOp' = Op("signal", NoTable, "return")
    /\ UNCHANGED <<tab, pc, idx, processed_ids, user_tables,
                   deident_tables, lastPoll, failedCreate, stage>>
    /\ UNCHANGED call

\* the application inserts a row into a source table (InnoDB keeps and
\* lists a table's rows in primary key order).  No worker step reads a row
\* before the bulk sync phase, so an insert made while no worker process
\* runs acts as one made at the start of the next process.
InsertRow ==
    /\ pc \notin {"stopped", "crashed"}
    /\ TotalRows < MaxRows
    /\ \E name \in InsertTargets :
       \E k \in (1..MaxKey) \ PksOf(name) :
       \E e \in Emails :
         LET fresh == /\ ~Falsy(e)
                      /\ \A i \in 1..Len(tab[name].rows) :
                            Get(tab[name].rows[i], "email", None) # e
                      /\ k > SetMax(PksOf(name))
         IN  /\ tab' = [tab EXCEPT ![name].rows =
                          SortById(Range(@) \cup {SourceRow(name, k, e)},
                                   get_id_column(name))]
             /\ lastOp' = Op("insert", name, "return")
             /\ stage' = IF Get(stage, name, "") = "bulked" /\ fresh
                         THEN Put(stage, name, "one")
                         ELSE Drop(stage, name)
    /\ UNCHANGED <<pc, idx, running, processed_ids, user_tables,
                   deident_tables, lastPoll, failedCreate>>
    /\ UNCHANGED call

\* the process dies or exits and a new worker process is started:
\* DeidentificationWorker.__init__ then run()
Restart ==
    /\ lastOp.op # "restart"
    /\ pc' = "discover"
    /\ idx' = 0
    /\ running' = TRUE
    /\ processed_ids' = EmptyMap
    /\ user_tables' = <<>>
    /\ deident_tables' = EmptyMap
    /\ lastPoll' = EmptyMap
    /\ failedCreate' = {}
    /\ lastOp' = Op("restart", NoTable, "return")
    /\ UNCHANGED <<tab, stage>>
    /\ UNCHANGED call

Next ==
    \/ Discover
    \/ Provision
    \/ BulkSync
    \/ LoopCheck
    \/ Poll
    \/ Sleep
    \/ Signal
    \/ InsertRow
    \/ Restart

Spec == Init /\ [][Next]_vars

\* ------------------------------------------------- one worker process
\* the steps of run()
Worker ==
    \/ Discover
    \/ Provision
    \/ BulkSync
    \/ LoopCheck
    \/ Poll
    \/ Sleep

NextRun ==
    \/ Worker
    \/ Signal
    \/ InsertRow

\* One process from its start to its end.  run() is sequential code on one
\* thread: while it has a next statement, it executes it.
FairSpec == Init /\ [][NextRun]_vars /\ WF_vars(Worker)

\* ------------------------------------ one process, database healthy
\* the steps of run() in which every database call succeeds
QuietWorker == Worker /\ lastOp'.clean

NextQuiet ==
    \/ QuietWorker
    \/ InsertRow

\* One process polling a healthy database, with no signal: the application
\* inserts rows while run() goes on executing its next statement (every
\* step of run() in such a behaviour is a QuietWorker step).
QuietSpec == Init /\ [][NextQuiet]_vars /\ WF_vars(Worker)

\* ------------------------------------- create_deidentified_table alone
\* column names a source table may have besides id; two of them contain
\* "email"
ExtraCols == {"email", "work_email", "full_name", "created_at"}

RECURSIVE ListsUpTo(_)
ListsUpTo(n) ==
    IF n = 0 THEN {<<>>}
    ELSE LET shorter == ListsUpTo(n - 1)
         IN  shorter \cup { Append(l, c) : l \in shorter, c \in ExtraCols }

ColumnLists ==
    { <<"id">> \o l : l \in { x \in ListsUpTo(MaxCols) : NoDuplicates(x) } }

\* a database whose only table is members_raw, with any of the column lists
InitCreate ==
    /\ tab \in { [n \in {MembersRaw} |-> TableDef(cols)] : cols \in ColumnLists }
    /\ pc = "discover"
    /\ idx = 0
    /\ running = TRUE
    /\ processed_ids = EmptyMap
    /\ user_tables = <<>>
    /\ deident_tables = EmptyMap
    /\ lastOp = Op("init", NoTable, "return")
    /\ lastPoll = EmptyMap
    /\ failedCreate = {}
    /\ call = NoCall
    /\ stage = EmptyMap

\* run() up to the end of its creation loop
NextCreate ==
    \/ Discover
    \/ Provision

SpecCreate == InitCreate /\ [][NextCreate]_vars

\* ------------------------------------------------- generate_anon_id alone
\* both classes, constructed with the same secret, hash one identity string
GenerateAnonId ==
    /\ \E s \in Identities :
         call' = [fn |-> "generate_anon_id", arg |-> s,
                  worker |-> generate_anon_id(s),
                  manager |-> manager_generate_anon_id(s)]
    /\ UNCHANGED run_vars

NextAnon == GenerateAnonId

SpecAnon == Init /\ [][NextAnon]_vars

\* ------------------------------------------------ the web application
\* DeidentificationManager and the two endpoints of app.py, on the ORM
\* tables members_raw, members_deidentified and audit_logs

MembersDeidentified == <<"members", "deidentified">>

worker_vars == <<pc, idx, running, processed_ids, user_tables,
                 deident_tables, lastOp, lastPoll, failedCreate, stage>>

\* MemberRaw.email (NOT NULL, UNIQUE): the empty string, a letter in either
\* case, a blank
AppEmails == StringsUpTo(1)
\* MemberRaw.full_name (NOT NULL)
AppNames == {<<>>, <<"A">>}
\* MemberRaw.created_at (nullable), as <<year, month, day>>; NoTime is NULL
NoTime == <<>>
CreatedAts == {NoTime, <<2025, 1, 15>>}
\* datetime.utcnow() at the time of a request
Nows == {<<2026, 11, 4>>, <<2026, 12, 1>>}

\* the contents members_raw may have: ids 1..n, no two rows with one email
RECURSIVE MemberLists(_)
MemberLists(n) ==
    IF n = 0 THEN {<<>>}
    ELSE LET shorter == MemberLists(n - 1)
         IN  shorter \cup
             { Append(ms, [id |-> Len(ms) + 1, email |-> e,
                           full_name |-> nm, created_at |-> c]) :
                 ms \in { q \in shorter : Len(q) = n - 1 },
                 e \in AppEmails, nm \in AppNames, c \in CreatedAts }

UniqueEmails(ms) ==
    \A i, j \in 1..Len(ms) : ms[i].email = ms[j].email => i = j

AppDb(members) ==
    [n \in {MembersRaw, MembersDeidentified, AuditLogs} |->
        IF n = MembersRaw
        THEN [cols |-> <<"id", "full_name", "email", "created_at">>,
              pk |-> <<"id">>, unique |-> {"id", "email"}, rows |-> members]
        ELSE IF n = MembersDeidentified
        THEN [cols |-> <<"anon_id", "name_fingerprint", "signup_cohort">>,
              pk |-> <<"id">>, unique |-> {"anon_id"}, rows |-> <<>>]
        ELSE [cols |-> <<"action", "source_member_id", "anon_id", "details">>,
              pk |-> <<"id">>, unique |-> {}, rows |-> <<>>]]

InitApp ==
    /\ tab \in { AppDb(ms) : ms \in { q \in MemberLists(MaxMembers) : UniqueEmails(q) } }
    /\ pc = "discover"
    /\ idx = 0
    /\ running = TRUE
    /\ processed_ids = EmptyMap
    /\ user_tables = <<>>
    /\ deident_tables = EmptyMap
    /\ lastOp = Op("init", NoTable, "return")
    /\ lastPoll = EmptyMap
    /\ failedCreate = {}
    /\ call = NoCall
    /\ stage = EmptyMap

\* no ORM object: what query.get returns for an id that has no row
NoMember == [missing |-> TRUE]

\* an exception leaving a function that returns a dict
Raise(exc) == [raised |-> exc]

\* hashlib.sha1(x.encode()).hexdigest()[:16]
Sha1_16(msg) == <<"sha1", msg>>

\* a fingerprint with no sentinel: a missing name is hashed as the empty string
fingerprint_name_Hashed(name) ==
    Sha1_16(IF name = None THEN <<>> ELSE strip(lower(name)))

\* DeidentificationManager.fingerprint_name
fingerprint_name(name) ==
    IF name = None \/ name = <<>> THEN "unknown"
    ELSE Sha1_16(strip(lower(name)))

\* datetime.strftime("%Y-%m")
strftime_Ym(t) == <<t[1], t[2]>>

\* DeidentificationManager.signup_cohort; now: what datetime.utcnow() returns
signup_cohort(created_at, now) ==
    strftime_Ym(IF created_at = NoTime THEN now ELSE created_at)

\* DeidentificationManager.deidentify_member
deidentify_member(member_raw, now) ==
    IF member_raw = NoMember THEN Raise("ValueError")
    ELSE LET anon_id == manager_generate_anon_id(member_raw.email)
         IN  IF anon_id = "ValueError" THEN Raise("ValueError")
             ELSE [anon_id |-> anon_id,
                   name_fingerprint |-> fingerprint_name(member_raw.full_name),
                   signup_cohort |-> signup_cohort(member_raw.created_at, now)]

\* DeidentificationManager.log_audit: one row added to audit_logs and committed
log_audit(t, action, source_id, anon_id, details) ==
    [t EXCEPT ![AuditLogs].rows =
        Append(@, [action |-> action, source_member_id |-> source_id,
                   anon_id |-> anon_id, details |-> details])]

\* MemberRaw.query.get(member_id)
QueryGet(member_id) ==
    IF member_id \in 1..Len(tab[MembersRaw].rows)
    THEN tab[MembersRaw].rows[member_id] ELSE NoMember

\* a lookup that never finds the row
Existing_Never(rows, anon_id) == FALSE

\* MemberDeidentified.query.filter_by(anon_id=...).first() is not None
Existing(rows, anon_id) == \E i \in 1..Len(rows) : rows[i].anon_id = anon_id

\* POST /api/members/deidentify/<member_id>: every exception, the 404 of
\* get_or_404 included, is answered with status 500
deidentify_member_route ==
    /\ Len(tab[AuditLogs].rows) < MaxAudit
    /\ \E member_id \in 1..(MaxMembers + 1) :
       \E now \in Nows :
       \E member \in {QueryGet(member_id)} :
       \E data \in {deidentify_member(member, now)} :
         LET rows == tab[MembersDeidentified].rows
         IN  IF member = NoMember \/ data = Raise("ValueError")
             THEN /\ call' = [fn |-> "deidentify_member", arg |-> member,
                              now |-> now, data |-> data, status |-> 500]
                  /\ UNCHANGED tab
             ELSE /\ call' = [fn |-> "deidentify_member", arg |-> member,
                              now |-> now, data |-> data, status |-> 200]
                  /\ tab' = IF Existing(rows, data.anon_id) THEN tab
                            ELSE log_audit(
                                   [tab EXCEPT ![MembersDeidentified].rows =
                                                   Append(@, data)],
                                   "deidentified", member_id, data.anon_id, None)
    /\ UNCHANGED worker_vars

\* the for loop of deidentify_batch: st.rows is members_deidentified as the
\* session sees it; an exception of deidentify_member leaves the loop
RECURSIVE BatchLoop(_, _, _)
BatchLoop(members, now, st) ==
    IF members = <<>> THEN st
    ELSE LET member == Head(members)
             data == deidentify_member(member, now)
         IN  IF data = Raise("ValueError") THEN [st EXCEPT !.raised = TRUE]
             ELSE IF ~Existing(st.rows, data.anon_id)
             THEN BatchLoop(Tail(members), now,
                    [st EXCEPT !.rows = Append(@, data),
                               !.results = Append(@, [member_id |-> member.id,
                                                      anon_id |-> data.anon_id,
                                                      status |-> "created"])])
             ELSE BatchLoop(Tail(members), now,
                    [st EXCEPT !.results = Append(@, [member_id |-> member.id,
                                                      anon_id |-> data.anon_id,
                                                      status |-> "exists"])])

\* POST /api/members/deidentify-batch: the commit comes after the loop, so
\* an exception inside the loop ends the request with nothing committed
deidentify_batch ==
    /\ Len(tab[AuditLogs].rows) < MaxAudit
    /\ \E now \in Nows :
       \E st \in {BatchLoop(tab[MembersRaw].rows, now,
                             [rows |-> tab[MembersDeidentified].rows,
                              results |-> <<>>, raised |-> FALSE])} :
         LET members == tab[MembersRaw].rows
         IN  IF st.raised
             THEN /\ call' = [fn |-> "deidentify_batch", arg |-> members,
                              now |-> now, results |-> <<>>, status |-> 500]
                  /\ UNCHANGED tab
             ELSE /\ call' = [fn |-> "deidentify_batch", arg |-> members,
                              now |-> now, results |-> st.results, status |-> 200]
                  /\ tab' = log_audit(
                              [tab EXCEPT ![MembersDeidentified].rows = st.rows],
                              "batch_deidentified", None, None, Len(st.results))
    /\ UNCHANGED worker_vars

NextApp ==
    \/ deidentify_member_route
    \/ deidentify_batch

SpecApp == InitApp /\ [][NextApp]_vars

\* =================================================================
\* Properties
\* =================================================================
ShadowRows(t) ==
    IF DeidentName(t) \in DOMAIN tab THEN tab[DeidentName(t)].rows ELSE <<>>

\* the source rows of t that carry an identity value
ValidRows(t) ==
    { r \in Range(tab[t].rows) : ~Falsy(r[get_email_column(t)]) }

SelectRan == {"idle", "committed", "commit_failed"}

\* C1: in a poll, if the write of the selected row with key N fails with a
\* write error, then when the poll ends the table's watermark is strictly
\* less than N, also when rows with larger keys were written in the same poll.
C1_FailedRowAboveWatermark ==
    lastOp.op = "poll" =>
        \A N \in lastOp.failed : Watermark(lastOp.table) < N

\* C2: the watermark of each table never exceeds the largest primary key in
\* its source table, and from poll to poll (within one worker process) it
\* never decreases.
C2_WatermarkBounded ==
    \A t \in DOMAIN processed_ids : processed_ids[t] <= SetMax(PksOf(t))

C2_WatermarkStep ==
    lastOp'.op # "restart" =>
        \A t \in DOMAIN processed_ids :
            /\ t \in DOMAIN processed_ids'
            /\ processed_ids'[t] >= processed_ids[t]

C2_WatermarkMonotoneBounded ==
    [][C2_WatermarkStep /\ C2_WatermarkBounded']_vars

C2_Witness ==
    /\ lastOp.op = "poll"
    /\ lastOp.out = "committed"
    /\ Len(tab[MembersRaw].rows) = 2
    /\ Watermark(MembersRaw) = SetMax(PksOf(MembersRaw))
    /\ lastOp.selected = {SetMax(PksOf(MembersRaw))}

\* C3: a row whose write failed in one poll of a table is selected again by
\* the next poll of that table (every poll whose SELECT ran).
C3_FailedRowSelectedAgain ==
    [][ \A t \in DOMAIN lastPoll :
          (lastOp'.op = "poll" /\ lastOp'.table = t /\ lastOp'.out \in SelectRan)
              => lastPoll[t] \subseteq lastOp'.selected ]_vars

\* C4: when bulk sync runs against an empty shadow table and the database
\* raises no fault, the shadow table afterwards holds, for every identity
\* value of the source, exactly one row with that identity's anon_id and the
\* primary key of a source row carrying it as source_id.
C4_BulkSyncCopies ==
    (lastOp.op = "bulk" /\ lastOp.out = "synced" /\ lastOp.clean) =>
        LET t == lastOp.table
            sh == ShadowRows(t)
        IN  \A r \in ValidRows(t) :
              LET hits == { i \in 1..Len(sh) :
                              sh[i]["anon_id"] = generate_anon_id(r[get_email_column(t)]) }
              IN  /\ Cardinality(hits) = 1
                  /\ \A i \in hits :
                       \E q \in ValidRows(t) :
                          /\ q[get_email_column(t)] = r[get_email_column(t)]
                          /\ sh[i]["source_id"] = q[get_id_column(t)]

\* C5: bulk sync is idempotent: a bulk sync of a table that follows a bulk
\* sync of it, with no insert into the source and no poll of the table in
\* between, leaves the shadow table's rows as they were.
C5_BulkSyncIdempotent ==
    [][ \A t \in DOMAIN stage :
          (stage[t] = "bulked" /\ lastOp'.op = "bulk" /\ lastOp'.table = t)
              => ShadowRows(t)' = ShadowRows(t) ]_vars

C5_Witness ==
    /\ lastOp.op = "bulk"
    /\ lastOp.table = MembersRaw
    /\ lastOp.out = "synced"
    /\ lastOp.again
    /\ ValidRows(MembersRaw) # {}

\* C6: after shadow creation and bulk sync of a table, if exactly one row
\* with a fresh identity and a larger primary key is inserted, one poll of
\* the table (with no fault of the database) adds exactly one shadow row,
\* whose source_id is the new row's key, and leaves the earlier shadow rows
\* as they were.
C6_OneTickAddsOneRow ==
    [][ \A t \in DOMAIN stage :
          (stage[t] = "one" /\ lastOp'.op = "poll" /\ lastOp'.table = t
                /\ lastOp'.clean)
              => /\ Len(ShadowRows(t)') = Len(ShadowRows(t)) + 1
                 /\ SubSeq(ShadowRows(t)', 1, Len(ShadowRows(t))) = ShadowRows(t)
                 /\ ShadowRows(t)'[Len(ShadowRows(t)')]["source_id"]
                        = SetMax(PksOf(t)) ]_vars

\* C7: a selected row whose identity value is null or empty advances the
\* watermark to its primary key.
C7_SkippedRowAdvancesWatermark ==
    (lastOp.op = "poll" /\ lastOp.out \in SelectRan) =>
        \A N \in lastOp.skipped : Watermark(lastOp.table) >= N

\* C8: no shadow row originates from a source row whose identity value is
\* null or empty; and a bulk sync or a poll that meets such a row (with no
\* fault of the database) does not fail, and issues the write of every other
\* row of the batch.
C8_NoShadowRowOfEmptyIdentity ==
    \A t \in DOMAIN tab :
        get_email_column(t) # None =>
            \A i \in 1..Len(ShadowRows(t)) :
                \A r \in Range(tab[t].rows) :
                    r[get_id_column(t)] = ShadowRows(t)[i]["source_id"]
                        => ~Falsy(r[get_email_column(t)])

C8_SkipDoesNotFail ==
    (lastOp.op \in {"bulk", "poll"} /\ lastOp.clean /\ lastOp.skipped # {}) =>
        /\ lastOp.out \in {"synced", "committed"}
        /\ pc # "crashed"
        /\ lastOp.attempted = lastOp.selected \ lastOp.skipped

C8_EmptyIdentitySkipped ==
    C8_NoShadowRowOfEmptyIdentity /\ C8_SkipDoesNotFail

C8_Witness ==
    /\ lastOp.op = "poll"
    /\ lastOp.out = "committed"
    /\ \E N \in lastOp.skipped : \E M \in lastOp.attempted :
         /\ N < M
         /\ \E i \in 1..Len(ShadowRows(lastOp.table)) :
               ShadowRows(lastOp.table)[i]["source_id"] = M

\* C9: if create_deidentified_table returned None for a table, then for the
\* rest of the run neither sync_existing_records nor monitor_new_records is
\* invoked for that table, and the worker keeps running.
C9_FailedTableExcluded ==
    /\ lastOp.op \in {"bulk", "poll"} => lastOp.table \notin failedCreate
    /\ (failedCreate # {} /\ lastOp.op \in {"bulk", "poll"} /\ lastOp.clean)
           => pc # "crashed"

\* C10: a database error at any point of one table's poll is caught inside
\* that poll: the pass goes on to the remaining tables and the loop to its
\* next tick.
C10_PollErrorContained ==
    lastOp.op = "poll" =>
        /\ lastOp.out # "raised"
        /\ pc \in {"poll", "sleep"}

\* C11: for every non-empty identity string, upper-case letters and
\* surrounding whitespace included, the worker's generate_anon_id and the
\* manager's generate_anon_id return the same anon_id under the same secret.
C11_SameAnonId ==
    (call.fn = "generate_anon_id" /\ call.arg # <<>>) =>
        call.worker = call.manager

AnonIds(rows) == { rows[i]["anon_id"] : i \in 1..Len(rows) }

\* the anon_ids the worker computes for the source rows of t with keys in K
AnonIdsOf(t, K) ==
    { generate_anon_id(r[get_email_column(t)]) :
        r \in { q \in Range(tab[t].rows) : q[get_id_column(t)] \in K } }

\* C12: no two rows of a shadow table have the same anon_id; and in a poll
\* (with no fault of the database) the write of a row whose anon_id is already
\* in the shadow table is a no-op: nothing fails, the shadow rows written
\* before stay as they are, no row is added for an anon_id already present,
\* and the watermark advances past every row whose write was issued.
C12_UniqueAnonId ==
    \A t \in DOMAIN tab :
        get_email_column(t) # None =>
            Cardinality(AnonIds(ShadowRows(t))) = Len(ShadowRows(t))

C12_DuplicateNoOp ==
    \A t \in DOMAIN tab :
        (lastOp'.op = "poll" /\ lastOp'.table = t /\ lastOp'.out = "committed"
            /\ lastOp'.clean)
        => LET old == ShadowRows(t)
               new == ShadowRows(t)'
               att == lastOp'.attempted
           IN  /\ lastOp'.failed = {}
               /\ pc' # "crashed"
               /\ SubSeq(new, 1, Len(old)) = old
               /\ AnonIds(new) = AnonIds(old) \cup AnonIdsOf(t, att)
               /\ (AnonIdsOf(t, att) \subseteq AnonIds(old) => new = old)
               /\ \A k \in att : Watermark(t)' >= k

C12_DuplicateAnonIdIgnored ==
    [][C12_DuplicateNoOp /\ C12_UniqueAnonId']_vars

\* two source rows with one identity were written in one clean poll: one
\* shadow row, and the watermark is past both
C12_Witness ==
    /\ lastOp.op = "poll"
    /\ lastOp.out = "committed"
    /\ lastOp.clean
    /\ Cardinality(lastOp.attempted) = 2
    /\ Len(ShadowRows(lastOp.table)) = 1
    /\ Watermark(lastOp.table) = SetMax(lastOp.attempted)

\* the keys of the source rows of t that carry an identity value
ValidKeys(t) == { r[get_id_column(t)] : r \in ValidRows(t) }

\* C13: a worker process that holds no watermark for a table (a new process
\* after a crash or restart holds none) scans the table from its lowest key:
\* its poll selects every source row; with no fault of the database the rows
\* already in the shadow table stay as they are, every source row with a
\* non-empty identity is in the shadow table afterwards, and a shadow table
\* that already held them all is left with the same rows.
C13_RescanStep ==
    \A t \in DOMAIN tab :
        (lastOp'.op = "poll" /\ lastOp'.table = t /\ lastOp'.out \in SelectRan
            /\ t \notin DOMAIN processed_ids)
        => LET old == ShadowRows(t)
               new == ShadowRows(t)'
           IN  /\ lastOp'.selected = PksOf(t)
               /\ (lastOp'.clean /\ lastOp'.out = "committed") =>
                     /\ SubSeq(new, 1, Len(old)) = old
                     /\ AnonIdsOf(t, ValidKeys(t)) \subseteq AnonIds(new)
                     /\ (AnonIdsOf(t, ValidKeys(t)) \subseteq AnonIds(old)
                            => new = old)

C13_RestartRescans == [][C13_RescanStep]_vars

\* after a restart one row is absorbed and one is added
C13_Witness ==
    /\ lastOp.op = "poll"
    /\ lastOp.rescan
    /\ lastOp.out = "committed"
    /\ lastOp.clean
    /\ Cardinality(lastOp.attempted) = 2
    /\ lastOp.selected = PksOf(lastOp.table)
    /\ Len(ShadowRows(lastOp.table)) = 2

\* a step of run() that moves its position (not the start of a new process)
Moves == <<pc, idx>>' # <<pc, idx>> /\ lastOp'.op # "restart"

\* C14: when the stop flag is set while a polling pass is in progress, at
\* whatever table, the pass is not cut short: the next step of the worker is
\* the poll of the table the pass is at, then of the next table, up to the
\* last one; the worker exits from the while test only.
C14_PassStep ==
    /\ (pc = "poll" /\ ~running /\ Moves) =>
          /\ lastOp'.op = "poll"
          /\ lastOp'.table = user_tables[idx]
          /\ \/ pc' = "crashed"
             \/ idx < Len(user_tables) /\ pc' = "poll" /\ idx' = idx + 1
             \/ idx = Len(user_tables) /\ pc' = "sleep"
    /\ (pc' = "stopped" /\ pc # "stopped") => (pc = "loop" /\ ~running)

C14_PassNotCutShort == [][C14_PassStep]_vars

\* the last table of a pass has been polled with the flag set: the flag was
\* set in that pass (set before the pass, the while test would have ended
\* the loop)
C14_Witness ==
    /\ ~running
    /\ Len(user_tables) >= 2
    /\ pc = "sleep"
    /\ lastOp.op = "poll"
    /\ lastOp.table = user_tables[Len(user_tables)]

\* C15: after the stop flag is set during a polling pass, the end of that
\* pass is not followed by the sleep of the poll interval.
C15_NoSleepAfterStop ==
    [][ (pc = "poll" /\ ~running) => pc' # "sleep" ]_vars

\* C16: in one worker process, under fairness of its steps: once the stop
\* flag is set in the polling phase, the worker eventually is out of the loop
\* (stopped; crashed when a database call raised instead of returning); and
\* the polling loop is left for the stopped state only with the flag set.
C16_StopsOnlyOnSignal ==
    /\ (~running /\ pc \in PollingPhase) ~> (pc \in {"stopped", "crashed"})
    /\ [][ (pc \in PollingPhase /\ pc' \notin PollingPhase /\ pc' # "crashed")
             => (pc' = "stopped" /\ ~running) ]_vars

C16_Witness ==
    /\ pc = "stopped"
    /\ ~running
    /\ lastOp.op = "loop"
    /\ lastOp.out = "exit"

\* C17: the phases of a run are sequential and ordered: discovery, then the
\* creation attempt for every discovered table, then the bulk sync of every
\* table, then the polling loop; a phase moves from a table to the next one
\* of the list, and every creation, bulk sync and poll is the one of the
\* single table the run is at.
C17_PhaseStep ==
    LET n == Len(user_tables)
        next_table == idx < n /\ pc' = pc /\ idx' = idx + 1
    IN  /\ Moves =>
             CASE pc = "discover" ->
                    /\ lastOp'.op = "discover"
                    /\ \/ pc' = "crashed"
                       \/ pc' = "provision" /\ idx' = 1 /\ user_tables' # <<>>
                       \/ pc' = "loop" /\ user_tables' = <<>>
               [] pc = "provision" ->
                    /\ lastOp'.op = "create"
                    /\ \/ pc' = "crashed"
                       \/ next_table
                       \/ idx = n /\ pc' = "bulk" /\ idx' = 1
               [] pc = "bulk" ->
                    /\ lastOp'.op = "bulk"
                    /\ \/ pc' = "crashed"
                       \/ next_table
                       \/ idx = n /\ pc' = "loop"
               [] pc = "loop" ->
                    /\ lastOp'.op = "loop"
                    /\ \/ pc' = "poll" /\ idx' = 1
                       \/ pc' = "sleep" /\ user_tables = <<>>
                       \/ pc' = "stopped"
               [] pc = "poll" ->
                    /\ lastOp'.op = "poll"
                    /\ \/ pc' = "crashed"
                       \/ next_table
                       \/ idx = n /\ pc' = "sleep"
               [] pc = "sleep" -> lastOp'.op = "sleep" /\ pc' = "loop"
               [] OTHER -> FALSE
        /\ (lastOp'.op \in {"create", "bulk", "poll"} /\ lastOp' # lastOp) =>
              /\ pc = (IF lastOp'.op = "create" THEN "provision" ELSE lastOp'.op)
              /\ lastOp'.table = user_tables[idx]
        /\ (pc \notin {"discover"} /\ lastOp'.op # "restart") =>
              user_tables' = user_tables

C17_PhasesSequential == [][C17_PhaseStep]_vars

\* the first poll of a run over two tables: both have had their creation
\* attempt
C17_Witness ==
    /\ pc = "poll"
    /\ idx = 2
    /\ lastOp.op = "poll"
    /\ lastOp.table = user_tables[1]
    /\ Len(user_tables) >= 2
    /\ \A i \in 1..Len(user_tables) :
          \/ user_tables[i] \in DOMAIN deident_tables
          \/ user_tables[i] \in failedCreate

\* C18: create_deidentified_table is idempotent: called for a source whose
\* shadow table exists, it leaves the database as it is and (when the
\* database can be reached) returns the shadow table's name; and no step
\* ever changes the schema of a table that exists, so that a shadow table is
\* created at most once.
C18_CreateStep ==
    /\ \A n \in DOMAIN tab :
          /\ n \in DOMAIN tab'
          /\ tab'[n].cols = tab[n].cols
          /\ tab'[n].pk = tab[n].pk
          /\ tab'[n].unique = tab[n].unique
    /\ (pc = "provision" /\ Moves /\ DeidentName(user_tables[idx]) \in DOMAIN tab) =>
          /\ tab' = tab
          /\ lastOp'.out # "raised" =>
                /\ lastOp'.out = "exists"
                /\ pc' # "crashed"
                /\ user_tables[idx] \in DOMAIN deident_tables'
                /\ deident_tables'[user_tables[idx]] = DeidentName(user_tables[idx])
                /\ user_tables[idx] \notin failedCreate'

C18_CreateIdempotent == [][C18_CreateStep]_vars

\* a later run finds the shadow table of members_raw with its rows
C18_Witness ==
    /\ lastOp.op = "create"
    /\ lastOp.table = MembersRaw
    /\ lastOp.out = "exists"
    /\ ShadowRows(MembersRaw) # <<>>
    /\ Get(deident_tables, MembersRaw, NoTable) = DeidentName(MembersRaw)

\* C19: when the CREATE TABLE statement of a shadow table fails,
\* create_deidentified_table returns None without raising, no shadow table
\* exists for that source afterwards, and the run goes on to the creation of
\* the next discovered table, or after the last one to the bulk sync phase.
C19_CreateStep ==
    (pc = "provision" /\ Moves) =>
        /\ lastOp'.op = "create"
        /\ lastOp'.table = user_tables[idx]
        /\ lastOp'.out = "create_failed" =>
              /\ pc' # "crashed"
              /\ tab' = tab
              /\ DeidentName(user_tables[idx]) \notin DOMAIN tab'
              /\ user_tables[idx] \notin DOMAIN deident_tables'
              /\ user_tables[idx] \in failedCreate'
              /\ \/ idx < Len(user_tables) /\ pc' = "provision" /\ idx' = idx + 1
                 \/ idx = Len(user_tables) /\ pc' = "bulk" /\ idx' = 1

C19_CreateFailureContained == [][C19_CreateStep]_vars

\* the creation for the first table failed, the one for the second table
\* was attempted and the run is in its bulk sync phase
C19_Witness ==
    /\ pc = "bulk"
    /\ Len(user_tables) = 2
    /\ user_tables[1] \in failedCreate
    /\ DeidentName(user_tables[1]) \notin DOMAIN tab
    /\ lastOp.op = "create"
    /\ lastOp.table = user_tables[2]

\* the column list the shadow table of a source with columns cols is to have
\* when identity is the source's identity column
ExpectedShadowCols(cols, identity) ==
    [i \in 1..Len(cols) |-> IF cols[i] = identity THEN "anon_id" ELSE cols[i]]
        \o <<"source_id", "deidentified_at">>

\* C20: after a creation with no fault of the database, the shadow table
\* exists and its column list is the source's, in order, with exactly the
\* identity column (the one get_email_column selects) replaced by a unique
\* anon_id column, followed by source_id and deidentified_at; also for a
\* source with more than one column whose name contains "email".
C20_ShadowColumns ==
    (lastOp.op = "create" /\ lastOp.clean /\ lastOp.out # "exists") =>
        LET t == lastOp.table
            identity == get_email_column(t)
        IN  /\ DeidentName(t) \in DOMAIN tab
            /\ tab[DeidentName(t)].cols = ExpectedShadowCols(tab[t].cols, identity)
            /\ identity # None => "anon_id" \in tab[DeidentName(t)].unique

\* ------------------------------------------------------------------ C21
\* C21: a table run() keeps that has no column whose name contains "email"
\* gets no shadow table: after create_deidentified_table has run for it, no
\* table named <table>_deidentified exists.
C21_NoShadowWithoutIdentity ==
    (/\ lastOp.op = "create"
     /\ get_email_column(lastOp.table) = None)
        => DeidentName(lastOp.table) \notin DOMAIN tab

\* ------------------------------------------------------------------ C22
\* C22: a call of sync_existing_records that finds at least one row in the
\* shadow table reads no source row, issues no INSERT and leaves every table
\* and the watermarks as they were; when it returns, it returns through the
\* "already synced" branch.
C22_ShortCircuitStep ==
    (/\ pc = "bulk"
     /\ Moves
     /\ ShadowRows(user_tables[idx]) # <<>>)
        => /\ tab' = tab
           /\ processed_ids' = processed_ids
           /\ lastOp'.op = "bulk"
           /\ lastOp'.selected = {}
           /\ lastOp'.attempted = {}
           /\ lastOp'.out \in {"already", "raised"}

C22_BulkSyncShortCircuits == [][C22_ShortCircuitStep]_vars

\* a bulk sync has short-circuited while a source row with an identity
\* value had no shadow row
C22_Witness ==
    /\ lastOp.op = "bulk"
    /\ lastOp.out = "already"
    /\ ShadowRows(lastOp.table) # <<>>
    /\ ~(AnonIdsOf(lastOp.table, ValidKeys(lastOp.table))
            \subseteq AnonIds(ShadowRows(lastOp.table)))

\* ------------------------------------------------------------------ C23
\* C23: when the enumeration of the tables at the start of run() fails, the
\* exception leaves run() and the process exits with status 1; the step
\* changes no table, and that process takes no further step: no shadow table
\* is created, no bulk sync and no poll runs (the only step after it is the
\* start of a new process).
C23_AbortStep ==
    /\ (/\ pc = "discover"
        /\ lastOp'.op = "discover"
        /\ lastOp'.out = "raised")
          => /\ pc' = "crashed"
             /\ ExitStatus' = 1
             /\ tab' = tab
             /\ user_tables' = <<>>
             /\ deident_tables' = EmptyMap
             /\ processed_ids' = EmptyMap
    /\ (/\ pc = "crashed"
        /\ lastOp.op = "discover")
          => lastOp'.op = "restart"

C23_DiscoveryFailureFatal == [][C23_AbortStep]_vars

\* a process has ended with status 1 on the failed enumeration, with source
\* rows waiting and nothing created or synced by it
C23_Witness ==
    /\ pc = "crashed"
    /\ ExitStatus = 1
    /\ lastOp.op = "discover"
    /\ lastOp.out = "raised"
    /\ tab[MembersRaw].rows # <<>>
    /\ DeidentName(MembersRaw) \notin DOMAIN tab

\* ------------------------------------------------------------------ C24
\* C24: with a healthy database and no stop signal, every source row with a
\* non-empty identity value that is in a synced table while the worker is
\* polling eventually has a shadow row with its anon_id, whatever its
\* primary key value.
C24_NewRowEventuallySynced ==
    \A k \in 1..MaxKey :
        (/\ pc \in PollingPhase
         /\ k \in ValidKeys(MembersRaw))
            ~> (AnonIdsOf(MembersRaw, {k}) \subseteq AnonIds(ShadowRows(MembersRaw)))

\* ------------------------------------------------------------------ C25
\* C25: a member whose identity string is empty is skipped by the batch
\* endpoint: after a batch request no row of members_deidentified belongs to
\* it, and every other member of the batch has its row.
C25_BatchSkipsEmptyIdentity ==
    call.fn = "deidentify_batch" =>
        \A i \in 1..Len(call.arg) :
            call.arg[i].email # <<>> =>
                Existing(tab[MembersDeidentified].rows,
                         manager_generate_anon_id(call.arg[i].email))

\* ------------------------------------------------------------------ C26
\* C26: for a member with a non-empty identity string, deidentify_member
\* returns a result whatever the name and the creation timestamp are: with a
\* missing name the name_fingerprint is "unknown", with a missing timestamp
\* the cohort is the year and month of the current time, and the anon_id is
\* the one the same member has with both fields present.
C26_MissingFieldsTolerated ==
    (/\ call.fn = "deidentify_member"
     /\ call.arg # NoMember
     /\ call.arg.email # <<>>)
        => /\ call.data # Raise("ValueError")
           /\ call.status = 200
           /\ call.arg.full_name = <<>> => call.data.name_fingerprint = "unknown"
           /\ call.arg.created_at = NoTime =>
                 call.data.signup_cohort = <<call.now[1], call.now[2]>>
           /\ call.data.anon_id =
                 deidentify_member([call.arg EXCEPT !.full_name = <<"A">>,
                                                    !.created_at = <<2025, 1, 15>>],
                                   call.now).anon_id

\* a member with no name and no timestamp has been deidentified and stored
C26_Witness ==
    /\ call.fn = "deidentify_member"
    /\ call.arg # NoMember
    /\ call.arg.email # <<>>
    /\ call.arg.full_name = <<>>
    /\ call.arg.created_at = NoTime
    /\ call.status = 200
    /\ Existing(tab[MembersDeidentified].rows, call.data.anon_id)

\* ------------------------------------------------------------------ C27
\* C27: in every state, every source row with a non-empty identity value
\* and a primary key at or below the table's watermark has a shadow row
\* with its anon_id.
C27_CompleteBelowWatermark ==
    \A t \in DOMAIN processed_ids :
        \A k \in ValidKeys(t) :
            k <= processed_ids[t] =>
                AnonIdsOf(t, {k}) \subseteq AnonIds(ShadowRows(t))

\* ------------------------------------------------------------------ C28
\* C28: with a source table that only grows, every row of its shadow table
\* has the primary key of an existing source row as its source_id, and its
\* anon_id is the one generate_anon_id returns for that source row's
\* identity value.
C28_Provenance ==
    \A t \in DOMAIN tab :
        get_email_column(t) # None =>
            \A i \in 1..Len(ShadowRows(t)) :
                \E r \in Range(tab[t].rows) :
                    /\ ShadowRows(t)[i]["source_id"] = r[get_id_column(t)]
                    /\ ShadowRows(t)[i]["anon_id"] =
                          generate_anon_id(r[get_email_column(t)])

\* a shadow table holds the rows of two source rows, one of them written by
\* an earlier worker process
C28_Witness ==
    /\ Len(ShadowRows(MembersRaw)) = 2
    /\ lastOp.op = "poll"
    /\ lastOp.rescan

\* ------------------------------------------------------------------ C29
\* C29: once stop() has cleared self.running, in whichever phase, the
\* process never sets it again and starts no polling pass: the start-up
\* phases go on to their end, a pass in progress is the only polling left,
\* and the while test that follows ends run().
C29_StopStep ==
    (~running /\ lastOp'.op # "restart")
        => /\ ~running'
           /\ pc' = "poll" => pc = "poll"
           /\ (pc \in {"discover", "provision", "bulk"} /\ Moves)
                 => pc' \in {"provision", "bulk", "loop", "crashed"}
           /\ (pc = "loop" /\ Moves) => pc' = "stopped"

C29_StopFlagSticky == [][C29_StopStep]_vars

\* the signal arrived during start-up and the start-up phases have run to
\* their end since
C29_Witness ==
    /\ ~running
    /\ pc = "loop"
    /\ lastOp.op = "bulk"
    /\ processed_ids = EmptyMap

\* ------------------------------------------------------------------ C30
\* C30: no raw identity value reaches a shadow table: the values bound to
\* the INSERT built from any source row do not include the value of its
\* identity column, nor a column of that name, the anon_id bound is the
\* HMAC of that value, and no field of any shadow row is an identity value.
RawIdentities == { e \in Emails : ~Falsy(e) }

C31_FirstWriteWins ==
    (/\ lastOp.op = "poll"
     /\ lastOp.out \in SelectRan
     /\ get_email_column(lastOp.table) # None)
        => \A i \in 1..Len(ShadowRows(lastOp.table)) :
             \A k \in ValidKeys(lastOp.table) :
                AnonIdsOf(lastOp.table, {k}) = {ShadowRows(lastOp.table)[i]["anon_id"]}
                    => ShadowRows(lastOp.table)[i]["source_id"] <= k

\* ------------------------------------------------------------------ C32
\* C32: a table named <source>_deidentified is never among the tables run()
\* keeps as user tables, and create_deidentified_table is never called for
\* one.
IsShadowName(name) == name # <<>> /\ name[Len(name)] = "deidentified"

C32_ShadowNeverSource ==
    /\ \A i \in 1..Len(user_tables) : ~IsShadowName(user_tables[i])
    /\ lastOp.op = "create" => ~IsShadowName(lastOp.table)

\* ------------------------------------------------------------------ C33
\* C33: for an identity string that is empty once lower-cased and stripped
\* (the empty string or whitespace only), the manager's generate_anon_id
\* returns no anon_id: it raises.
C33_NoAnonIdForBlankIdentity ==
    (/\ call.fn = "generate_anon_id"
     /\ strip(lower(call.arg)) = <<>>)
        => call.manager = "ValueError"

\* ------------------------------------------------------------------ C34
\* C34: a successful call of the single-member endpoint returns the anon_id
\* of the member's identity and leaves exactly one row of
\* members_deidentified with it; a call that finds the row changes no table
\* and writes no audit entry, and a call that creates it writes exactly one
\* 'deidentified' audit entry.
RowsWith(rows, anon_id) == { i \in 1..Len(rows) : rows[i].anon_id = anon_id }

C34_RouteStep ==
    (/\ call'.fn = "deidentify_member"
     /\ call'.status = 200)
        => LET anon_id == manager_generate_anon_id(call'.arg.email)
               before == tab[MembersDeidentified].rows
               after == tab'[MembersDeidentified].rows
           IN  /\ call'.data.anon_id = anon_id
               /\ Cardinality(RowsWith(after, anon_id)) = 1
               /\ RowsWith(before, anon_id) # {} => tab' = tab
               /\ RowsWith(before, anon_id) = {} =>
                     /\ after = Append(before, call'.data)
                     /\ tab'[AuditLogs].rows =
                          Append(tab[AuditLogs].rows,
                                 [action |-> "deidentified",
                                  source_member_id |-> call'.arg.id,
                                  anon_id |-> anon_id, details |-> None])

C34_RouteIdempotent == [][C34_RouteStep]_vars

\* the endpoint has answered for a member whose row was already there and
\* whose 'deidentified' audit entry was written by a call for another member
C34_Witness ==
    /\ call.fn = "deidentify_member"
    /\ call.status = 200
    /\ Cardinality(RowsWith(tab[MembersDeidentified].rows, call.data.anon_id)) = 1
    /\ \E i \in 1..Len(tab[AuditLogs].rows) :
          /\ tab[AuditLogs].rows[i].action = "deidentified"
          /\ call.data.anon_id = tab[AuditLogs].rows[i].anon_id
    /\ \A i \in 1..Len(tab[AuditLogs].rows) :
          tab[AuditLogs].rows[i].action = "deidentified"
              => tab[AuditLogs].rows[i].source_member_id # call.arg.id

====
